---- MODULE Spec2Model ----
(***************************************************************************)
(* Model of the pricing core of bspricer (utils.py): the retry decorator   *)
(* retry_with_backoff, black_scholes, calc_hist_vol and the cached         *)
(* get_risk_free_rate.                                                     *)
(*                                                                         *)
(* Units.  Waiting times are in tenths of a second (1.5 s = 15).  Rates    *)
(* are in basis points (0.02 = 200), quotes in whole percentage points,    *)
(* so quote / 100 is quote * 100 basis points.  The clock is in seconds.   *)
(***************************************************************************)
EXTENDS Integers, Sequences, FiniteSets, TLC

VARIABLES
    \* harness around a generically decorated operation (utils.py 17-34)
    pc,            \* "idle" | "running" | "done"
    max_retries,   \* the decorator argument of the call in progress
    frame,         \* the wrapper's activation: loop counter, result, ...
    trace,         \* outcomes of the invocations of func, in order
    \* black_scholes (utils.py 38-46)
    bs_in,         \* the arguments of the call
    bs_out,        \* what the call did with them
    \* calc_hist_vol (utils.py 50-86)
    vol_pc,        \* "idle" | "running" | "done"
    vol_frame,     \* the wrapper's activation
    vol_trace,     \* per invocation of the body: how it ended
    vol_data,      \* what yf.download gave to the latest invocation
    \* get_risk_free_rate (utils.py 90-115)
    clock,         \* seconds
    ticks,         \* number of clock advances so far
    irx,           \* what the provider answers to a query made now
    cache,         \* st.cache_data entry of get_risk_free_rate, or NoEntry
    rate_pc,       \* "idle" | "running"
    rate_frame,    \* the wrapper's activation
    rate_call,     \* the call in progress: when it started, what it asked
    log,           \* completed calls of get_risk_free_rate, in order
    risk_free_rate \* app.py 55/58: the caller's variable

vars == <<pc, max_retries, frame, trace, bs_in, bs_out, vol_pc, vol_frame,
          vol_trace, vol_data, clock, ticks, irx, cache, rate_pc, rate_frame,
          rate_call, log, risk_free_rate>>

retry_vars == <<pc, max_retries, frame, trace>>
bs_vars    == <<bs_in, bs_out>>
vol_vars   == <<vol_pc, vol_frame, vol_trace, vol_data>>
rate_vars  == <<clock, ticks, irx, cache, rate_pc, rate_frame, rate_call,
                log, risk_free_rate>>

None == "None"

----------------------------------------------------------------------------
(* Bounds *)

MaxRetriesArg == 4      \* largest max_retries passed to the decorator
MaxLen == 3             \* longest price series
MaxPrice == 2           \* largest closing price
MaxVal == 2             \* largest black_scholes argument
MaxQuote == 2           \* largest ^IRX quote, in percentage points
MaxCalls == 3           \* calls of get_risk_free_rate
MaxTicks == 4           \* clock advances

----------------------------------------------------------------------------
(* retry_with_backoff (utils.py 17-34) *)

backoff_factor == 15    \* 1.5 s, in tenths of a second

\* An outcome of one invocation of func: it returned val, or raised val.
Returned(v) == [ok |-> TRUE, val |-> v]
Raised(e)   == [ok |-> FALSE, val |-> e]

\* wrapper entered, before the for loop.  range(max_retries) is empty for
\* max_retries <= 0: the loop body never runs and the function falls off
\* its end, returning None.
wrapper_enter(n) ==
    [attempt |-> 0, calls |-> 0, waits |-> <<>>,
     status  |-> IF n <= 0 THEN "returned" ELSE "running",
     result  |-> None, error |-> None]

\* Mutant: the last failed attempt also sleeps and the loop then ends
\* without raising.
wrapper_iter_swallow(f, n, out) ==
    IF out.ok
    THEN [f EXCEPT !.calls = @ + 1, !.status = "returned", !.result = out.val]
    ELSE [f EXCEPT !.calls = @ + 1,
                   !.waits = Append(@, backoff_factor * (2 ^ f.attempt)),
                   !.attempt = @ + 1,
                   !.error = out.val,
                   !.status = IF f.attempt < n - 1 THEN "running" ELSE "returned"]

\* Mutant: the result of a successful invocation is not returned at once;
\* the loop goes on to the next attempt.
wrapper_iter_again(f, n, out) ==
    IF out.ok /\ f.attempt >= n - 1
    THEN [f EXCEPT !.calls = @ + 1, !.status = "returned", !.result = out.val]
    ELSE IF out.ok
         THEN [f EXCEPT !.calls = @ + 1, !.attempt = @ + 1, !.result = out.val]
         ELSE IF f.attempt < n - 1
              THEN [f EXCEPT !.calls = @ + 1,
                             !.waits = Append(@, backoff_factor * (2 ^ f.attempt)),
                             !.attempt = @ + 1,
                             !.error = out.val]
              ELSE [f EXCEPT !.calls = @ + 1, !.status = "raised",
                             !.error = out.val]

\* One iteration of the for loop of wrapper (lines 22-32), func having
\* ended with `out`: return its value, or sleep and go round again, or
\* re-raise on the last attempt.
wrapper_iter(f, n, out) ==
    IF out.ok
    THEN [f EXCEPT !.calls = @ + 1, !.status = "returned", !.result = out.val]
    ELSE IF f.attempt < n - 1
         THEN [f EXCEPT !.calls = @ + 1,
                        !.waits = Append(@, backoff_factor * (2 ^ f.attempt)),
                        !.attempt = @ + 1,
                        !.error = out.val]
         ELSE [f EXCEPT !.calls = @ + 1, !.status = "raised", !.error = out.val]

\* What a decorated test operation may do on one invocation.
Outcomes == {Returned("v1"), Returned("v2"), Raised("e1"), Raised("e2")}

IdleFrame == wrapper_enter(0)

RetryIdle ==
    /\ pc = "idle"
    /\ max_retries = 0
    /\ frame = IdleFrame
    /\ trace = <<>>

\* decorated(...) is called: retry_with_backoff(max_retries=n)(func)(...)
Enter ==
    /\ pc = "idle"
    /\ \E n \in 0..MaxRetriesArg :
          /\ max_retries' = n
          /\ frame' = wrapper_enter(n)
          /\ pc' = IF wrapper_enter(n).status = "running" THEN "running" ELSE "done"
    /\ trace' = <<>>
    /\ UNCHANGED <<bs_vars, vol_vars, rate_vars>>

\* one loop iteration: func is invoked and does one of Outcomes
Invoke ==
    /\ pc = "running"
    /\ \E out \in Outcomes :
          /\ frame' = wrapper_iter(frame, max_retries, out)
          /\ trace' = Append(trace, out)
          /\ pc' = IF wrapper_iter(frame, max_retries, out).status = "running"
                   THEN "running" ELSE "done"
    /\ UNCHANGED <<max_retries, bs_vars, vol_vars, rate_vars>>

----------------------------------------------------------------------------
(* black_scholes (utils.py 38-46) *)

\* Python's None where the other values are records.
PyNone == [none |-> TRUE]

Raises(e)  == [kind |-> "raise", error |-> e, value |-> PyNone]
Returns(v) == [kind |-> "return", error |-> None, value |-> v]

\* The value of the closed formula: not computed here, only named.
Price(side, S, K, T, r, sigma) ==
    [side |-> side, S |-> S, K |-> K, T |-> T, r |-> r, sigma |-> sigma]

\* Mutant: the arguments are validated first (what the formula needs).
black_scholes_validating(S, K, T, r, sigma, option_type) ==
    IF S <= 0 \/ K <= 0 \/ T <= 0 \/ sigma <= 0
    THEN Raises("InvalidInputError")
    ELSE IF option_type = "call" THEN Returns(Price("call", S, K, T, r, sigma))
    ELSE IF option_type = "put" THEN Returns(Price("put", S, K, T, r, sigma))
    ELSE Raises("UnsupportedOptionKindError")

\* Python evaluates line 39 left to right: S / K, math.log, math.sqrt(T),
\* then the division by sigma * math.sqrt(T).
black_scholes(S, K, T, r, sigma, option_type) ==
    IF K = 0 THEN Raises("ZeroDivisionError")             \* S / K
    ELSE IF S * K <= 0 THEN Raises("ValueError")           \* math.log(S / K)
    ELSE IF T < 0 THEN Raises("ValueError")                \* math.sqrt(T)
    ELSE IF sigma = 0 \/ T = 0 THEN Raises("ZeroDivisionError")
    ELSE IF option_type = "call" THEN Returns(Price("call", S, K, T, r, sigma))
    ELSE IF option_type = "put" THEN Returns(Price("put", S, K, T, r, sigma))
    ELSE Returns(PyNone)

OptionTypes == {"call", "put", "straddle"}

BSInputs ==
    [S : 0..MaxVal, K : 0..MaxVal, T : -1..MaxVal, r : 0..1,
     sigma : -1..MaxVal, option_type : OptionTypes]

Pending == [kind |-> "pending", error |-> None, value |-> PyNone]

BSIdle ==
    /\ bs_in = [S |-> 1, K |-> 1, T |-> 1, r |-> 0, sigma |-> 1,
                option_type |-> "call"]
    /\ bs_out = Pending

BSCall ==
    /\ bs_out = Pending
    /\ bs_out' = black_scholes(bs_in.S, bs_in.K, bs_in.T, bs_in.r,
                               bs_in.sigma, bs_in.option_type)
    /\ UNCHANGED <<bs_in, retry_vars, vol_vars, rate_vars>>

----------------------------------------------------------------------------
(* calc_hist_vol (utils.py 50-86) *)

vol_max_retries == 3

\* yf.download(...)['Close']: it raises, or gives a series of closes.  A
\* close of 0 stands for a zero price.
DownloadRaises == [kind |-> "raise", data |-> <<>>]
Series(d) == [kind |-> "series", data |-> d]

RECURSIVE SeqsUpTo(_, _)
SeqsUpTo(S, n) ==
    IF n = 0 THEN {<<>>}
    ELSE LET shorter == SeqsUpTo(S, n - 1)
         IN  shorter \cup {Append(s, x) : s \in {t \in shorter : Len(t) = n - 1},
                                          x \in S}

Downloads == {DownloadRaises} \cup {Series(d) : d \in SeqsUpTo(0..MaxPrice, MaxLen)}

\* np.log(data / data.shift(1)).dropna(): the first row has no predecessor
\* and is NaN, 0/0 is NaN, and NaN rows are dropped.  x/0 is inf and
\* log(0/x) is -inf: those rows stay.  A return is kept as the pair
\* <<close, previous close>>.
RECURSIVE log_returns(_)
log_returns(data) ==
    IF Len(data) < 2 THEN <<>>
    ELSE LET n == Len(data)
             rest == log_returns(SubSeq(data, 1, n - 1))
         IN  IF data[n] = 0 /\ data[n - 1] = 0
             THEN rest
             ELSE Append(rest, <<data[n], data[n - 1]>>)

Infinite(ret) == ret[1] = 0 \/ ret[2] = 0
SameReturn(a, b) == a[1] * b[2] = b[1] * a[2]

\* log_returns.std() * np.sqrt(252), as a class: the sample standard
\* deviation (ddof = 1) of one value is NaN, as is one of a series holding
\* an infinity; of equal returns it is 0, exactly so when they are all
\* log(1) or there are two of them, and else 0 or a rounding residue;
\* of returns that differ it is positive.
hist_vol(lr) ==
    IF Len(lr) = 1 \/ \E i \in 1..Len(lr) : Infinite(lr[i]) THEN {"nan"}
    ELSE IF \A i, j \in 1..Len(lr) : SameReturn(lr[i], lr[j])
         THEN IF Len(lr) = 2 \/ lr[1][1] = lr[1][2]
              THEN {"zero"} ELSE {"zero", "positive"}
         ELSE {"positive"}

ValueError(msg) == [type |-> "ValueError", msg |-> msg]
DownloadError == [type |-> "Exception", msg |-> "yf.download"]
FetchError == ValueError("Unable to fetch valid historical data")
ReturnsError == ValueError("Unable to calculate log returns")
InvalidError == ValueError("Calculated volatility is invalid")

\* Mutant: a ValueError of the body is returned as a failure value, not
\* raised into the retry loop.
calc_hist_vol_no_retry(dl, hv) ==
    IF dl.kind = "raise" THEN Raised(DownloadError)
    ELSE IF Len(dl.data) < 2 \/ Len(log_returns(dl.data)) = 0
              \/ hv \in {"zero", "nan"}
         THEN Returned("failed")
         ELSE Returned(hv)

\* Mutant: the volatility is returned without the check of line 80.
calc_hist_vol_unchecked(dl, hv) ==
    IF dl.kind = "raise" THEN Raised(DownloadError)
    ELSE IF Len(dl.data) < 2
         THEN Raised(FetchError)
    ELSE IF Len(log_returns(dl.data)) = 0
         THEN Raised(ReturnsError)
    ELSE Returned(hv)

\* The body of calc_hist_vol, lines 64-86, yf.download having ended with
\* dl and the standard deviation having come out in class hv.  The except
\* clause logs and re-raises whatever was raised.
calc_hist_vol(dl, hv) ==
    IF dl.kind = "raise" THEN Raised(DownloadError)
    ELSE IF Len(dl.data) < 2
         THEN Raised(FetchError)
    ELSE IF Len(log_returns(dl.data)) = 0
         THEN Raised(ReturnsError)
    ELSE IF hv \in {"zero", "nan"}
         THEN Raised(InvalidError)
    ELSE Returned(hv)

\* The classes line 76 can give for this download.
VolClasses(dl) ==
    IF dl.kind = "raise" \/ Len(log_returns(dl.data)) = 0
    THEN {"nan"} ELSE hist_vol(log_returns(dl.data))

VolIdle ==
    /\ vol_pc = "idle"
    /\ vol_frame = IdleFrame
    /\ vol_trace = <<>>
    /\ vol_data = DownloadRaises

\* app.py 103: calc_hist_vol(ticker, period) is called
VolEnter ==
    /\ vol_pc = "idle"
    /\ vol_pc' = "running"
    /\ vol_frame' = wrapper_enter(vol_max_retries)
    /\ UNCHANGED <<vol_trace, vol_data, retry_vars, bs_vars, rate_vars>>

\* one iteration of the retry loop around the body
VolAttempt ==
    /\ vol_pc = "running"
    /\ \E dl \in Downloads : \E hv \in VolClasses(dl) :
          LET out == calc_hist_vol(dl, hv)
              f == wrapper_iter(vol_frame, vol_max_retries, out)
          IN  /\ vol_frame' = f
              /\ vol_trace' = Append(vol_trace, out)
              /\ vol_data' = dl
              /\ vol_pc' = IF f.status = "running" THEN "running" ELSE "done"
    /\ UNCHANGED <<retry_vars, bs_vars, rate_vars>>

----------------------------------------------------------------------------
(* get_risk_free_rate (utils.py 90-115) *)

rate_max_retries == 3
ttl == 86400
default_rate == 200     \* 0.02, in basis points

\* yf.Ticker('^IRX').fast_info.get('lastPrice', None): the provider call
\* raises, or there is no lastPrice, or there is a quote.
ProviderRaises == [kind |-> "raise", q |-> 0]
Missing == [kind |-> "none", q |-> 0]
Quote(n) == [kind |-> "quote", q |-> n]

ProviderAnswers == {ProviderRaises, Missing} \cup {Quote(n) : n \in -1..MaxQuote}

\* Mutant: the except clause lets the provider's exception out.
get_risk_free_rate_reraise(ans) ==
    IF ans.kind = "raise" THEN Raised("provider")
    ELSE IF ans.kind = "quote" /\ ans.q # 0 /\ ans.q > 0
         THEN Returned(ans.q * 100)
         ELSE Returned(default_rate)

\* The body, lines 100-115.  `risk_free_rate and risk_free_rate > 0` is
\* false for None and for 0 before the comparison is made; quote / 100 is
\* quote * 100 basis points.  Whatever the try block raises, the except
\* clause returns 0.02.
get_risk_free_rate(ans) ==
    IF ans.kind = "raise" THEN Returned(default_rate)
    ELSE IF ans.kind = "quote" /\ ans.q # 0 /\ ans.q > 0
         THEN Returned(ans.q * 100)
         ELSE Returned(default_rate)

\* st.cache_data(ttl=86400), line 90: one entry (the function has no
\* arguments), stamped when it is stored and no longer served once ttl
\* seconds have passed.
NoEntry == [present |-> FALSE, value |-> 0, created |-> 0]

\* Mutant: the entry is dropped after half of its time to live.
cache_fresh_half(c, now) == c.present /\ now < c.created + (ttl \div 2)

cache_fresh(c, now) == c.present /\ now < c.created + ttl

\* Mutant: only a fetched rate is stored, the default is recomputed.
cache_store_fetched(c, v, now) ==
    IF v = default_rate THEN c
    ELSE [present |-> TRUE, value |-> v, created |-> now]

cache_store(c, v, now) == [present |-> TRUE, value |-> v, created |-> now]

NoCall == [at |-> 0, saw |-> <<>>]

RateIdle ==
    /\ clock = 0
    /\ ticks = 0
    /\ cache = NoEntry
    /\ rate_pc = "idle"
    /\ rate_frame = IdleFrame
    /\ rate_call = NoCall
    /\ log = <<>>
    /\ risk_free_rate = 0        \* not assigned yet

\* time passes, half a time-to-live at a step
Tick ==
    /\ ticks < MaxTicks
    /\ ticks' = ticks + 1
    /\ clock' = clock + (ttl \div 2)
    /\ UNCHANGED <<irx, cache, rate_pc, rate_frame, rate_call, log,
                   risk_free_rate, retry_vars, bs_vars, vol_vars>>

\* the provider's answer changes
ProviderChanges ==
    /\ \E a \in ProviderAnswers \ {irx} : irx' = a
    /\ UNCHANGED <<clock, ticks, cache, rate_pc, rate_frame, rate_call, log,
                   risk_free_rate, retry_vars, bs_vars, vol_vars>>

\* get_risk_free_rate() is called (app.py 55) and the cache serves it
RateHit ==
    /\ rate_pc = "idle"
    /\ Len(log) < MaxCalls
    /\ cache_fresh(cache, clock)
    /\ log' = Append(log, [at |-> clock, hit |-> TRUE, status |-> "returned",
                           value |-> cache.value, saw |-> <<>>,
                           created |-> cache.created])
    /\ risk_free_rate' = cache.value
    /\ UNCHANGED <<clock, ticks, irx, cache, rate_pc, rate_frame, rate_call,
                   retry_vars, bs_vars, vol_vars>>

\* get_risk_free_rate() is called and the cache has nothing to serve: the
\* decorated function is entered
RateMiss ==
    /\ rate_pc = "idle"
    /\ Len(log) < MaxCalls
    /\ ~cache_fresh(cache, clock)
    /\ rate_pc' = "running"
    /\ rate_frame' = wrapper_enter(rate_max_retries)
    /\ rate_call' = [at |-> clock, saw |-> <<>>]
    /\ UNCHANGED <<clock, ticks, irx, cache, log, risk_free_rate,
                   retry_vars, bs_vars, vol_vars>>

\* one iteration of the retry loop around the body; when the wrapper
\* returns, the cache stores the value; when it raises, nothing is stored
\* and app.py 56-58 takes 0.02
RateAttempt ==
    /\ rate_pc = "running"
    /\ LET f == wrapper_iter(rate_frame, rate_max_retries, get_risk_free_rate(irx))
           saw == Append(rate_call.saw, irx)
           stored == cache_store(cache, f.result, clock)
       IN  IF f.status = "running"
           THEN /\ rate_frame' = f
                /\ rate_call' = [rate_call EXCEPT !.saw = saw]
                /\ UNCHANGED <<rate_pc, cache, log, risk_free_rate>>
           ELSE /\ rate_pc' = "idle"
                /\ rate_frame' = IdleFrame
                /\ rate_call' = NoCall
                /\ cache' = IF f.status = "returned" THEN stored ELSE cache
                /\ risk_free_rate' = IF f.status = "returned" THEN f.result
                                     ELSE default_rate
                /\ log' = Append(log,
                      [at |-> rate_call.at, hit |-> FALSE, status |-> f.status,
                       value |-> IF f.status = "returned" THEN f.result ELSE -1,
                       saw |-> saw,
                       created |-> IF f.status = "returned" THEN stored.created
                                   ELSE -1])
    /\ UNCHANGED <<clock, ticks, irx, retry_vars, bs_vars, vol_vars>>

----------------------------------------------------------------------------
(* Specifications: one per component, the others at rest *)

Init ==
    /\ RetryIdle
    /\ BSIdle
    /\ VolIdle
    /\ RateIdle
    /\ irx = Quote(1)

Next == Enter \/ Invoke

Spec == Init /\ [][Next]_vars

BSInit ==
    /\ RetryIdle
    /\ VolIdle
    /\ RateIdle
    /\ irx = Quote(1)
    /\ bs_in \in BSInputs
    /\ bs_out = Pending

BSNext == BSCall

BSSpec == BSInit /\ [][BSNext]_vars

VolNext == VolEnter \/ VolAttempt

VolSpec == Init /\ [][VolNext]_vars

RateInit ==
    /\ RetryIdle
    /\ BSIdle
    /\ VolIdle
    /\ RateIdle
    /\ irx \in ProviderAnswers

RateNext == Tick \/ ProviderChanges \/ RateHit \/ RateMiss \/ RateAttempt

RateSpec == RateInit /\ [][RateNext]_vars

----------------------------------------------------------------------------
(* Claims about the retry wrapper, under Spec *)

AllFailed(t) == \A i \in 1..Len(t) : ~t[i].ok

\* C1: with max_retries >= 1 and an operation that raises every time it is
\* invoked, the wrapper invokes it max_retries times, sleeps after each
\* failure but the last (max_retries - 1 sleeps), then re-raises the error
\* of the last invocation; it does not return normally.
C1_AlwaysFailingRaises ==
    (max_retries >= 1 /\ pc # "idle" /\ AllFailed(trace)) =>
        /\ frame.status # "returned"
        /\ frame.calls = Len(trace)
        /\ frame.calls <= max_retries
        /\ pc = "running" =>
              /\ frame.calls < max_retries
              /\ Len(frame.waits) = frame.calls
        /\ pc = "done" =>
              /\ frame.status = "raised"
              /\ frame.calls = max_retries
              /\ Len(frame.waits) = max_retries - 1
              /\ frame.error = trace[Len(trace)].val

C1_Witness ==
    /\ pc = "done"
    /\ max_retries = 3
    /\ trace = <<Raised("e1"), Raised("e1"), Raised("e2")>>
    /\ frame.status = "raised"
    /\ frame.calls = 3
    /\ Len(frame.waits) = 2
    /\ frame.error = "e2"

\* C2: when the operation raises on its first k invocations (k <
\* max_retries) and succeeds on invocation k + 1, the wrapper returns that
\* value after exactly k + 1 invocations and k sleeps, and the operation is
\* not invoked again.
C2_SuccessAfterFailures ==
    \A i \in 1..Len(trace) :
        (trace[i].ok /\ AllFailed(SubSeq(trace, 1, i - 1))) =>
            /\ i <= max_retries
            /\ Len(trace) = i
            /\ pc = "done"
            /\ frame.status = "returned"
            /\ frame.result = trace[i].val
            /\ frame.calls = i
            /\ Len(frame.waits) = i - 1

C2_Witness ==
    /\ pc = "done"
    /\ max_retries = 3
    /\ trace = <<Raised("e1"), Raised("e2"), Returned("v2")>>
    /\ frame.status = "returned"
    /\ frame.result = "v2"
    /\ frame.calls = 3
    /\ Len(frame.waits) = 2

----------------------------------------------------------------------------
(* Claims about get_risk_free_rate, under RateSpec *)

Positive(ans) == ans.kind = "quote" /\ ans.q > 0
Last(s) == s[Len(s)]

\* C3: get_risk_free_rate never fails outward: whatever the provider does
\* (quote > 0, quote = 0, quote < 0, no quote, an exception), the call
\* returns a number; a call that asks the provider returns quote / 100 for
\* a quote that is present and positive and 0.02 otherwise.
C3_NeverFailsOutward ==
    \A i \in 1..Len(log) :
        /\ log[i].status = "returned"
        /\ log[i].value > 0
        /\ ~log[i].hit =>
              /\ log[i].saw # <<>>
              /\ log[i].value = IF Positive(Last(log[i].saw))
                                THEN Last(log[i].saw).q * 100
                                ELSE default_rate

C3_Witness ==
    /\ Len(log) = 3
    /\ log[1].saw = <<ProviderRaises>> /\ log[1].value = default_rate
    /\ log[2].saw = <<Quote(-1)>> /\ log[2].value = default_rate
    /\ log[3].saw = <<Quote(1)>> /\ log[3].value = 100
    /\ \A i \in 1..3 : log[i].status = "returned"

\* C4: a provider call that raises inside get_risk_free_rate is retried (up
\* to 3 attempts): the default 0.02 comes back only after the provider has
\* failed on all 3 attempts, and a provider that fails once and succeeds
\* next yields the fetched rate.
C4_ProviderFailureRetried ==
    \A i \in 1..Len(log) :
        (~log[i].hit /\ log[i].saw[1].kind = "raise") =>
            /\ Len(log[i].saw) >= 2
            /\ Last(log[i].saw).kind = "raise" =>
                  Len(log[i].saw) = rate_max_retries
            /\ Positive(Last(log[i].saw)) =>
                  log[i].value = Last(log[i].saw).q * 100

\* C5: a call made less than ttl seconds after a cache entry was created
\* returns the value of that entry and does not ask the provider, whatever
\* the provider would answer by then: of two calls in the window, at most
\* the one that created the entry asked the provider, once.
C5_CachedWithinTTL ==
    \A i, j \in 1..Len(log) :
        (i < j /\ log[i].status = "returned"
               /\ log[j].at < log[i].created + ttl) =>
            /\ log[j].value = log[i].value
            /\ log[j].hit
            /\ log[j].saw = <<>>
            /\ Len(log[i].saw) <= 1

C5_Witness ==
    /\ Len(log) = 2
    /\ ~log[1].hit /\ log[1].saw = <<Quote(1)>>
    /\ log[2].hit /\ log[2].at > log[1].at /\ log[2].at < log[1].created + ttl
    /\ log[2].value = 100
    /\ irx = Quote(2)        \* what a query would have got at the second call

DefaultedMiss(r) ==
    ~r.hit /\ r.status = "returned" /\ ~Positive(Last(r.saw))

\* C10: the default 0.02 is cached like a fetched rate: after a call that
\* produced it, the cache holds 0.02, and each later call within the ttl
\* window returns 0.02 from the cache without asking the provider, even
\* when the provider would by then answer with a positive quote.
C10_DefaultIsCached ==
    /\ \A i, j \in 1..Len(log) :
          (i < j /\ DefaultedMiss(log[i])
                 /\ log[j].at < log[i].created + ttl) =>
              /\ log[j].hit
              /\ log[j].value = default_rate
              /\ log[j].saw = <<>>
    /\ (log # <<>> /\ DefaultedMiss(Last(log))) =>
          /\ cache.present
          /\ cache.value = default_rate
          /\ cache.created = Last(log).created

C10_Witness ==
    /\ Len(log) = 2
    /\ log[1].saw = <<ProviderRaises>>
    /\ log[2].hit
    /\ log[2].at > log[1].at
    /\ log[2].value = default_rate
    /\ irx = Quote(1)        \* what a query would have got at the second call

----------------------------------------------------------------------------
(* Claims about black_scholes, under BSSpec *)

\* C6: with S > 0 and K > 0, a call whose T is zero or negative, or whose
\* sigma is zero or negative, is rejected with an error; no price is
\* returned.
C6_NonPositiveRejected ==
    (bs_out # Pending /\ bs_in.S > 0 /\ bs_in.K > 0
        /\ (bs_in.T <= 0 \/ bs_in.sigma <= 0)) =>
        bs_out.kind = "raise"

\* C7 as stated: with S, K, T, sigma > 0 and an option_type other than
\* "call" and "put", the call fails with an UnsupportedOptionKindError and
\* returns no sentinel such as None.
C7_UnknownKindRaises ==
    (bs_out # Pending /\ bs_in.S > 0 /\ bs_in.K > 0 /\ bs_in.T > 0
        /\ bs_in.sigma > 0 /\ bs_in.option_type \notin {"call", "put"}) =>
        /\ bs_out.kind = "raise"
        /\ bs_out.error = "UnsupportedOptionKindError"

\* C7 amended: with S, K, T, sigma > 0 and an option_type other than
\* "call" and "put", the call raises nothing and returns None.
C7_UnknownKindReturnsNone ==
    (bs_out # Pending /\ bs_in.S > 0 /\ bs_in.K > 0 /\ bs_in.T > 0
        /\ bs_in.sigma > 0 /\ bs_in.option_type \notin {"call", "put"}) =>
        /\ bs_out.kind = "return"
        /\ bs_out.value = PyNone

C7_Witness ==
    /\ bs_in.option_type = "straddle"
    /\ bs_in.S = 2 /\ bs_in.K = 1 /\ bs_in.T = 1 /\ bs_in.sigma = 1
    /\ bs_out = Returns(PyNone)

----------------------------------------------------------------------------
(* Claims about calc_hist_vol, under VolSpec *)

DataQualityErrors == {FetchError, ReturnsError, InvalidError}

DataQualityFailure(out) == ~out.ok /\ out.val \in DataQualityErrors

\* C8 as stated: a data-quality failure (fewer than 2 prices, no log
\* returns, a volatility that is zero or NaN) is not retried: the provider
\* is called once, there is no backoff wait, the error surfaces at once.
C8_DataQualityNotRetried ==
    (vol_trace # <<>> /\ DataQualityFailure(vol_trace[1])) =>
        /\ Len(vol_trace) = 1
        /\ vol_frame.calls = 1
        /\ vol_frame.waits = <<>>
        /\ vol_frame.status = "raised"

\* C8 amended: a data-quality failure is retried like a provider failure:
\* the body raises it into the retry loop, each failed attempt but the
\* third is followed by a backoff wait and another provider call, and the
\* error of the third attempt surfaces after 3 provider calls and 2 waits.
C8_DataQualityRetried ==
    /\ vol_frame.calls = Len(vol_trace)
    /\ (vol_trace # <<>> /\ vol_data.kind = "series"
          /\ Len(vol_data.data) < 2) =>
          /\ DataQualityFailure(Last(vol_trace))
          /\ Len(vol_trace) < vol_max_retries =>
                /\ vol_frame.status = "running"
                /\ Len(vol_frame.waits) = Len(vol_trace)
    /\ \A i \in 1..Len(vol_trace) :
          (DataQualityFailure(vol_trace[i]) /\ i < vol_max_retries) =>
              /\ Len(vol_frame.waits) >= i
              /\ i = Len(vol_trace) => vol_frame.status = "running"
    /\ vol_frame.status = "raised" =>
          /\ Len(vol_trace) = vol_max_retries
          /\ Len(vol_frame.waits) = vol_max_retries - 1
          /\ vol_frame.error = Last(vol_trace).val

C8_Witness ==
    /\ vol_pc = "done"
    /\ vol_frame.status = "raised"
    /\ vol_trace = <<Raised(FetchError), Raised(ReturnsError), Raised(InvalidError)>>
    /\ vol_frame.calls = 3
    /\ vol_frame.waits = <<15, 30>>
    /\ vol_frame.error = InvalidError

Constant(d) == \A i, j \in 1..Len(d) : d[i] = d[j]

\* C9 as stated: a series of length 1 or 0 fails with the insufficient-data
\* error, a constant series of any length >= 2 with the
\* degenerate-volatility error; the two differ and no volatility is
\* returned.
C9_ShortOrConstantFails ==
    (vol_trace # <<>> /\ vol_data.kind = "series") =>
        /\ Len(vol_data.data) < 2 => Last(vol_trace) = Raised(FetchError)
        /\ (Len(vol_data.data) >= 2 /\ Constant(vol_data.data)) =>
              Last(vol_trace) = Raised(InvalidError)

\* C9 amended: a series of length 1 or 0 fails with the insufficient-data
\* error, a constant series of a non-zero price of any length >= 2 with
\* the degenerate-volatility error (a constant series of zero prices has no
\* log return left and fails with the insufficient-data kind); both are
\* ValueErrors told apart by their messages, no volatility is returned, and
\* the error of the last attempt is the one the caller gets.
C9_ShortOrConstantPositiveFails ==
    /\ FetchError # InvalidError
    /\ (vol_trace # <<>> /\ vol_data.kind = "series") =>
          /\ Len(vol_data.data) < 2 => Last(vol_trace) = Raised(FetchError)
          /\ (Len(vol_data.data) >= 2 /\ Constant(vol_data.data)) =>
                Last(vol_trace) = IF vol_data.data[1] > 0
                                  THEN Raised(InvalidError)
                                  ELSE Raised(ReturnsError)
          /\ (Len(vol_data.data) < 2 \/ Constant(vol_data.data)) =>
                /\ vol_frame.status # "returned"
                /\ vol_pc = "done" =>
                      /\ vol_frame.status = "raised"
                      /\ vol_frame.error = Last(vol_trace).val

C9_Witness ==
    /\ vol_pc = "done"
    /\ vol_frame.status = "raised"
    /\ Len(vol_trace) = 3
    /\ vol_trace[2] = Raised(FetchError)
    /\ vol_data = Series(<<2, 2, 2>>)
    /\ vol_frame.error = InvalidError

====
